---------------------------- MODULE Spec2Model ----------------------------
(***************************************************************************)
(* The Average facade (src/average.ts) composed with the NumberProvider    *)
(* test doubles of its test file (src/unnamed/part_000).                   *)
(*                                                                         *)
(* Arrays are objects: the heap maps an address to the array's contents,   *)
(* so that returning an array (an alias) and returning [...array] (a copy) *)
(* are different things.  An address names the place and the call that     *)
(* made the array.  A promise is settled when readNumbers returns;         *)
(* the code after an await runs later, as a job of the FIFO microtask      *)
(* queue, and the calling code may run in between.                         *)
(*                                                                         *)
(* A number is a fraction [num, den] in lowest terms; 0/0 is not-a-number. *)
(* The inputs are small integers, for which the floating-point sum is      *)
(* exact and the quotient is the correctly rounded fraction.               *)
(***************************************************************************)
EXTENDS Integers, Sequences, FiniteSets, TLC

\* ----------------------------------------------------------------- bounds
\* Calls the test code makes in a run: facade operations, readNumbers,
\* setCurrentPath, addFile, push, getRecordedResults, getLastResult.
MaxCalls == 4
\* Longest input sequence of the statistics specification.
MaxLen == 4

\* Values of the input sequences of the statistics specification.
Values == {1, 2, 3}
\* What the calling code pushes onto an array it holds (999, 888 in the test).
PushValues == {999}

\* ------------------------------------------------------------ statistics
\* src/statistics.ts is not part of the sources at hand: mean, median and
\* mode follow the specification's section 4.2.

RECURSIVE Gcd(_, _)
Gcd(a, b) == IF b = 0 THEN a ELSE Gcd(b, a % b)

Abs(a) == IF a < 0 THEN -a ELSE a

\* a / b under IEEE rules for integers a >= 0, b >= 0: 0/0 is not-a-number.
Quot(a, b) ==
  IF b = 0 THEN [num |-> a, den |-> 0]
  ELSE LET g == Gcd(Abs(a), b) IN [num |-> a \div g, den |-> b \div g]

NaN == [num |-> 0, den |-> 0]

Num(n) == [num |-> n, den |-> 1]

isNaN(q) == q.num = 0 /\ q.den = 0

\* xs.reduce((acc, x) => acc + x, 0), left to right.
RECURSIVE SumFrom(_, _, _)
SumFrom(xs, i, acc) ==
  IF i > Len(xs) THEN acc ELSE SumFrom(xs, i + 1, acc + xs[i])

mean(xs) == Quot(SumFrom(xs, 1, 0), Len(xs))

\* Insert x into the ascending sequence s, after the elements <= x.
RECURSIVE InsertSorted(_, _)
InsertSorted(s, x) ==
  IF s = <<>> THEN <<x>>
  ELSE IF x < Head(s) THEN <<x>> \o s
  ELSE <<Head(s)>> \o InsertSorted(Tail(s), x)

\* [...xs].sort((a, b) => a - b): a sorted copy, xs itself untouched.
RECURSIVE SortAsc(_, _, _)
SortAsc(xs, i, acc) ==
  IF i > Len(xs) THEN acc ELSE SortAsc(xs, i + 1, InsertSorted(acc, xs[i]))

sortedCopy(xs) == SortAsc(xs, 1, <<>>)

\* s.slice(from, to) with 0-based bounds clamped to the array, as in JS.
slice(s, from, to) ==
  LET lo == IF from < 0 THEN 0 ELSE from
      hi == IF to > Len(s) THEN Len(s) ELSE to
  IN  IF lo >= hi THEN <<>> ELSE [i \in 1..(hi - lo) |-> s[lo + i]]

median(xs) ==
  LET sorted == sortedCopy(xs)
      mid    == Len(sorted) \div 2
  IN  IF Len(sorted) % 2 = 1
      THEN Num(sorted[mid + 1])
      ELSE mean(slice(sorted, mid - 1, mid + 1))

\* Occurrences of v in xs.
RECURSIVE CountOf(_, _, _, _)
CountOf(xs, v, i, acc) ==
  IF i > Len(xs) THEN acc
  ELSE CountOf(xs, v, i + 1, IF xs[i] = v THEN acc + 1 ELSE acc)

\* The largest occurrence count, 0 for the empty sequence.
RECURSIVE MaxCount(_, _, _)
MaxCount(xs, i, acc) ==
  IF i > Len(xs) THEN acc
  ELSE LET c == CountOf(xs, xs[i], 1, 0)
       IN  MaxCount(xs, i + 1, IF c > acc THEN c ELSE acc)

\* The distinct values of xs with m occurrences, in order of first occurrence.
RECURSIVE WithCount(_, _, _, _)
WithCount(xs, m, i, acc) ==
  IF i > Len(xs) THEN acc
  ELSE LET v    == xs[i]
           seen == \E j \in 1..Len(acc) : acc[j] = v
       IN  WithCount(xs, m, i + 1,
             IF ~seen /\ CountOf(xs, v, 1, 0) = m THEN Append(acc, v) ELSE acc)

mode(xs) == sortedCopy(WithCount(xs, MaxCount(xs, 1, 0), 1, <<>>))

\* ---------------------------------------------------------------- facade
\* What each facade operation returns once its fetch has delivered numbers.
\* Faulty variant: the wrong statistic is called.
computeMeanOfFile_usesMedian(numbers) == median(numbers)

computeMeanOfFile(numbers) == mean(numbers)

\* Faulty variant: the wrong statistic is called.
computeMedianOfFile_usesMean(numbers) == mean(numbers)

computeMedianOfFile(numbers) == median(numbers)

\* Faulty variant: the fetched numbers are returned as they are.
computeModeOfFile_returnsNumbers(numbers) == numbers

computeModeOfFile(numbers) == mode(numbers)

FacadeOps == {"mean", "median", "mode"}

\* A direct call of the provider's readNumbers by the test code.
AllOps == FacadeOps \cup {"read"}


\* ------------------------------------------------------------------ state
VARIABLES
  spied,            \* TRUE: the Average's provider is a FileAccessSpy around the source
  source,           \* the class of the source
  heap,             \* address -> contents of the array at that address
  fileSystem,       \* FakeFileSystemNumberProvider.fileSystem: path -> address, Null = no entry
  currentPath,      \* FakeFileSystemNumberProvider.currentPath
  numbers,          \* the array the source was constructed with (numbers / stubbedNumbers)
  callCount,        \* callCount of the mocks, calls.length of SpyNumberProvider
  spyCallCount,     \* FileAccessSpy.callCount
  recordedResults,  \* FileAccessSpy.recordedResults: addresses of the recorded copies
  ops,              \* the operations started, in order
  microtasks,       \* FIFO queue of the operations whose continuation is ready
  held,             \* addresses of the arrays the test code has received
  observed,         \* what the latest getRecordedResults / getLastResult returned
  history           \* bookkeeping of the run, read by the properties only

vars == <<spied, source, heap, fileSystem, currentPath, numbers, callCount,
          spyCallCount, recordedResults, ops, microtasks, held, observed, history>>

EmptyFile == "/path/to/an/empty/file"
OtherFile == "/path/to/some/other/file"
ThirdFile == "C:\\test-data\\third-file.txt"
MissingFile == "/non/existent/file.txt"

Paths == {"", EmptyFile, OtherFile, ThirdFile, MissingFile}

\* The paths the test code selects with setCurrentPath.
SelectPaths == {EmptyFile, OtherFile, MissingFile}

\* What the test code passes to addFile after construction: a new file and
\* new contents for a file of the constructor.
AddFiles == {<<MissingFile, <<10, 20, 30>>>>, <<OtherFile, <<5, 15, 25, 35>>>>}

SourceKinds == {"FakeFileSystem", "SimpleFake", "HardCodedStub", "ConfigurableStub",
                "SimpleMock", "Mock", "Spy"}

\* The sources constructed with an array.
ArrayKinds == {"SimpleFake", "ConfigurableStub", "Mock", "Spy"}

\* The sources that count their calls.
CountingKinds == {"SimpleMock", "Mock", "Spy"}

\* The sources a FileAccessSpy is put around: one that can fail, one that
\* copies and one that hands out its own array.
SpiedKinds == {"FakeFileSystem", "SimpleFake", "ConfigurableStub"}

\* The arrays the sources are constructed with.
Inputs == {<<>>, <<7, 34, 2>>}

\* No array.
Null == <<>>

NoError == [message |-> "", id |-> 0]

Fulfilled(v) == [state |-> "fulfilled", value |-> v, reason |-> NoError]
Rejected(e) == [state |-> "rejected", value |-> Null, reason |-> e]
Pending == [state |-> "pending", value |-> Null, reason |-> NoError]

\* [...xs] or an array literal: a new array at the unused address a.
Alloc(h, a, xs) == (a :> xs) @@ h

\* ---------------------------------------------------------------- sources
\* Each readNumbers gives the promise it returns and the state it leaves.
\* id numbers the call; a new Error is an object of its own.

FakeFileSystem_readNumbers(id) ==
  IF fileSystem[currentPath] = Null
  THEN [outcome |-> Rejected([message |-> "File not found: " \o currentPath, id |-> id]),
        heap |-> heap, callCount |-> callCount]
  ELSE [outcome |-> Fulfilled(<<"fetch", id>>),
        heap |-> Alloc(heap, <<"fetch", id>>, heap[fileSystem[currentPath]]),
        callCount |-> callCount]

SimpleFake_readNumbers(id) ==
  [outcome |-> Fulfilled(<<"fetch", id>>),
   heap |-> Alloc(heap, <<"fetch", id>>, heap[numbers]),
   callCount |-> callCount]

HardCodedStub_readNumbers(id) ==
  [outcome |-> Fulfilled(<<"fetch", id>>),
   heap |-> Alloc(heap, <<"fetch", id>>, <<10, 15, 20, 25, 30>>),
   callCount |-> callCount]

ConfigurableStub_readNumbers(id) ==
  [outcome |-> Fulfilled(numbers), heap |-> heap, callCount |-> callCount]

\* Faulty variant: the call is not counted.
SimpleMock_readNumbers_noCount(id) ==
  [outcome |-> Fulfilled(<<"fetch", id>>),
   heap |-> Alloc(heap, <<"fetch", id>>, <<5, 10, 15, 20, 25>>),
   callCount |-> callCount]

SimpleMock_readNumbers(id) ==
  [outcome |-> Fulfilled(<<"fetch", id>>),
   heap |-> Alloc(heap, <<"fetch", id>>, <<5, 10, 15, 20, 25>>),
   callCount |-> callCount + 1]

Mock_readNumbers(id) ==
  [outcome |-> Fulfilled(<<"fetch", id>>),
   heap |-> Alloc(heap, <<"fetch", id>>, heap[numbers]),
   callCount |-> callCount + 1]

\* calls.push({timestamp}): only the number of calls is kept.
Spy_readNumbers(id) ==
  [outcome |-> Fulfilled(<<"fetch", id>>),
   heap |-> Alloc(heap, <<"fetch", id>>, heap[numbers]),
   callCount |-> callCount + 1]

\* this.numberProvider.readNumbers() / this.realFileAccess.readNumbers().
SourceRead(id) ==
  CASE source = "FakeFileSystem" -> FakeFileSystem_readNumbers(id)
    [] source = "SimpleFake" -> SimpleFake_readNumbers(id)
    [] source = "HardCodedStub" -> HardCodedStub_readNumbers(id)
    [] source = "ConfigurableStub" -> ConfigurableStub_readNumbers(id)
    [] source = "SimpleMock" -> SimpleMock_readNumbers(id)
    [] source = "Mock" -> Mock_readNumbers(id)
    [] source = "Spy" -> Spy_readNumbers(id)

\* FileAccessSpy.readNumbers after its await, in the call numbered id: p is
\* the settled promise of the wrapped readNumbers.  A rejection is thrown on,
\* past the recording lines.
\* Faulty variant: the call is counted before the fetch is awaited.
FileAccessSpy_record_countsFailures(id, p) ==
  IF p.state = "rejected"
  THEN [outcome |-> p, heap |-> heap, spyCallCount |-> spyCallCount + 1,
        recordedResults |-> recordedResults]
  ELSE [outcome |-> Fulfilled(p.value),
        heap |-> Alloc(heap, <<"record", id>>, heap[p.value]),
        spyCallCount |-> spyCallCount + 1,
        recordedResults |-> Append(recordedResults, <<"record", id>>)]

FileAccessSpy_record(id, p) ==
  IF p.state = "rejected"
  THEN [outcome |-> p, heap |-> heap, spyCallCount |-> spyCallCount,
        recordedResults |-> recordedResults]
  ELSE [outcome |-> Fulfilled(p.value),
        heap |-> Alloc(heap, <<"record", id>>, heap[p.value]),
        spyCallCount |-> spyCallCount + 1,
        recordedResults |-> Append(recordedResults, <<"record", id>>)]

\* The facade operation k after its await: a rejection is thrown on as it is,
\* numbers go to the statistic.
\* Faulty variant: the failure is wrapped in a new message.
Average_settle_wrapsError(k, p, h) ==
  IF p.state = "rejected"
  THEN Rejected([message |-> "Cannot read numbers: " \o p.reason.message,
                 id |-> p.reason.id])
  ELSE CASE k = "mean" -> Fulfilled(computeMeanOfFile(h[p.value]))
         [] k = "median" -> Fulfilled(computeMedianOfFile(h[p.value]))
         [] k = "mode" -> Fulfilled(computeModeOfFile(h[p.value]))

\* Faulty variant: an empty sequence is refused.
Average_settle_throwsOnEmpty(k, p, h) ==
  IF p.state = "rejected"
  THEN Rejected(p.reason)
  ELSE IF h[p.value] = <<>>
  THEN Rejected([message |-> "No numbers", id |-> 0])
  ELSE CASE k = "mean" -> Fulfilled(computeMeanOfFile(h[p.value]))
         [] k = "median" -> Fulfilled(computeMedianOfFile(h[p.value]))
         [] k = "mode" -> Fulfilled(computeModeOfFile(h[p.value]))

Average_settle(k, p, h) ==
  IF p.state = "rejected"
  THEN Rejected(p.reason)
  ELSE CASE k = "mean" -> Fulfilled(computeMeanOfFile(h[p.value]))
         [] k = "median" -> Fulfilled(computeMedianOfFile(h[p.value]))
         [] k = "mode" -> Fulfilled(computeModeOfFile(h[p.value]))

\* ------------------------------------------------------------------- Init
\* new FakeFileSystemNumberProvider(): three addFile calls, currentPath "".
ConstructorFiles ==
  [p \in Paths |-> CASE p = EmptyFile -> <<"file", 1>>
                     [] p = OtherFile -> <<"file", 2>>
                     [] p = ThirdFile -> <<"file", 3>>
                     [] OTHER -> Null]

ConstructorHeap ==
  (<<"file", 1>> :> <<>>) @@ (<<"file", 2>> :> <<1, 2, 3, 4, 5>>)
    @@ (<<"file", 3>> :> <<7, 34, 2>>)

\* The contents each file was given by addFile, <<>> for a path never added.
ShadowOf(fs, h) == [p \in Paths |-> IF fs[p] = Null THEN <<>> ELSE h[fs[p]]]

\* The state after new Average(provider), the source constructed with input
\* (an array literal: the test code keeps no reference to it).
Constructed(spy, kind, input) ==
  /\ spied = spy
  /\ source = kind
  /\ heap = IF kind = "FakeFileSystem" THEN ConstructorHeap
            ELSE IF kind \in ArrayKinds THEN (<<"input", 1>> :> input)
            ELSE <<>>
  /\ fileSystem = IF kind = "FakeFileSystem" THEN ConstructorFiles
                  ELSE [p \in Paths |-> Null]
  /\ currentPath = ""
  /\ numbers = IF kind \in ArrayKinds THEN <<"input", 1>> ELSE Null
  /\ callCount = 0
  /\ spyCallCount = 0
  /\ recordedResults = <<>>
  /\ ops = <<>>
  /\ microtasks = <<>>
  /\ held = {}
  /\ observed = [call |-> "none", value |-> <<>>, at |-> 0, afterPush |-> FALSE]
  /\ history = [shadow |-> IF kind = "FakeFileSystem"
                            THEN ShadowOf(ConstructorFiles, ConstructorHeap)
                            ELSE [p \in Paths |-> <<>>],
                original |-> input, recordLog |-> <<>>, fromAccessor |-> {},
                pushedCopy |-> FALSE,
                files |-> 3, accesses |-> 0, calls |-> 0, disturbed |-> {}]

Init ==
  \E spy \in BOOLEAN, kind \in SourceKinds, input \in Inputs :
    /\ spy => kind \in SpiedKinds
    /\ kind \notin ArrayKinds => input = <<>>
    /\ Constructed(spy, kind, input)

\* -------------------------------------------------------------- operations
\* What the source is meant to hold for the current selection.
SourceContents ==
  CASE source = "FakeFileSystem" -> history.shadow[currentPath]
    [] source = "HardCodedStub" -> <<10, 15, 20, 25, 30>>
    [] source = "SimpleMock" -> <<5, 10, 15, 20, 25>>
    [] OTHER -> history.original

\* The operations on the fake file system that have not settled yet.
Unsettled ==
  IF source = "FakeFileSystem"
  THEN {i \in 1..Len(ops) : ops[i].pc # "done"}
  ELSE {}

\* The synchronous part of an operation k: the provider's readNumbers runs up
\* to its first await (the FileAccessSpy's) or to its end, and the caller
\* suspends on the promise.
Start(k) ==
  /\ history.calls < MaxCalls
  /\ LET id == Len(ops) + 1
         r  == SourceRead(id)
     IN  /\ heap' = r.heap
         /\ callCount' = r.callCount
         /\ ops' = Append(ops,
              [op |-> k,
               pc |-> IF spied THEN "spy" ELSE "caller",
               promise |-> r.outcome,
               result |-> Pending,
               path |-> currentPath,
               registered |-> source = "FakeFileSystem" => fileSystem[currentPath] # Null,
               expected |-> SourceContents,
               fetched |-> IF r.outcome.state = "fulfilled"
                           THEN r.heap[r.outcome.value] ELSE <<>>,
               received |-> <<>>])
         /\ microtasks' = Append(microtasks, id)
  /\ history' = [history EXCEPT !.calls = @ + 1,
                                !.disturbed = @ \cup Unsettled]
  /\ UNCHANGED <<spied, source, fileSystem, currentPath, numbers, spyCallCount,
                 recordedResults, held, observed>>

\* average.computeMeanOfFile() / computeMedianOfFile() / computeModeOfFile().
FacadeCall(k) == Start(k)

\* provider.readNumbers() called by the test code itself.
DirectRead == Start("read")

\* The FileAccessSpy resumes after its await.
SpyResume ==
  /\ microtasks # <<>>
  /\ LET i == Head(microtasks)
         r == FileAccessSpy_record(i, ops[i].promise)
     IN  /\ ops[i].pc = "spy"
         /\ heap' = r.heap
         /\ spyCallCount' = r.spyCallCount
         /\ recordedResults' = r.recordedResults
         /\ ops' = [ops EXCEPT ![i].pc = "caller", ![i].promise = r.outcome]
         /\ microtasks' = Append(Tail(microtasks), i)
         /\ history' = IF ops[i].promise.state = "fulfilled"
                       THEN [history EXCEPT !.recordLog =
                               Append(@, [id |-> i,
                                          contents |-> heap[ops[i].promise.value]])]
                       ELSE history
  /\ UNCHANGED <<spied, source, fileSystem, currentPath, numbers, callCount,
                 held, observed>>

\* const numbers = await this.numberProvider.readNumbers() in operation i:
\* what the await delivers is the outcome of the operation's own call.
\* Faulty variant: the first fetch is kept and served to every operation.
Awaited_firstFetch(i) == ops[1].promise

\* Faulty variant: the operation suspends before it calls readNumbers, which
\* then reads the path selected when the operation resumes.
Awaited_lateFetch(i) ==
  IF source # "FakeFileSystem" THEN ops[i].promise
  ELSE IF fileSystem[currentPath] = Null
  THEN Rejected([message |-> "File not found: " \o currentPath, id |-> i])
  ELSE Fulfilled(fileSystem[currentPath])

Awaited(i) == ops[i].promise

\* The facade operation resumes after its await and settles.
FacadeResume ==
  /\ microtasks # <<>>
  /\ LET i == Head(microtasks)
         p == Awaited(i)
     IN  /\ ops[i].pc = "caller"
         /\ ops[i].op \in FacadeOps
         /\ ops' = [ops EXCEPT ![i].pc = "done",
                               ![i].result = Average_settle(ops[i].op, p, heap),
                               ![i].received = IF p.state = "fulfilled"
                                               THEN heap[p.value] ELSE <<>>]
         /\ microtasks' = Tail(microtasks)
  /\ UNCHANGED <<spied, source, heap, fileSystem, currentPath, numbers, callCount,
                 spyCallCount, recordedResults, held, observed, history>>

\* The test code resumes after awaiting its own readNumbers call: it now
\* holds the array.
ReadResume ==
  /\ microtasks # <<>>
  /\ LET i == Head(microtasks)
         p == ops[i].promise
     IN  /\ ops[i].pc = "caller"
         /\ ops[i].op = "read"
         /\ ops' = [ops EXCEPT ![i].pc = "done",
                               ![i].result = p,
                               ![i].received = IF p.state = "fulfilled"
                                               THEN heap[p.value] ELSE <<>>]
         /\ held' = IF p.state = "fulfilled" THEN held \cup {p.value} ELSE held
         /\ microtasks' = Tail(microtasks)
  /\ UNCHANGED <<spied, source, heap, fileSystem, currentPath, numbers, callCount,
                 spyCallCount, recordedResults, observed, history>>

setCurrentPath(path) ==
  /\ source = "FakeFileSystem"
  /\ history.calls < MaxCalls
  /\ currentPath' = path
  /\ history' = [history EXCEPT !.calls = @ + 1,
                                !.disturbed = @ \cup Unsettled]
  /\ UNCHANGED <<spied, source, heap, fileSystem, numbers, callCount, spyCallCount,
                 recordedResults, ops, microtasks, held, observed>>

\* this.fileSystem.set(path, [...numbers]).
addFile(path, contents) ==
  /\ source = "FakeFileSystem"
  /\ history.calls < MaxCalls
  /\ LET a == <<"file", history.files + 1>>
     IN  /\ heap' = Alloc(heap, a, contents)
         /\ fileSystem' = [fileSystem EXCEPT ![path] = a]
  /\ history' = [history EXCEPT !.calls = @ + 1, !.files = @ + 1,
                                !.shadow[path] = contents,
                                !.disturbed = @ \cup Unsettled]
  /\ UNCHANGED <<spied, source, currentPath, numbers, callCount, spyCallCount,
                 recordedResults, ops, microtasks, held, observed>>

\* array.push(v) on an array the test code holds.
Push(a, v) ==
  /\ a \in held
  /\ history.calls < MaxCalls
  /\ heap' = [heap EXCEPT ![a] = Append(@, v)]
  /\ history' = [history EXCEPT
                   !.calls = @ + 1,
                   !.pushedCopy = @ \/ a \in history.fromAccessor]
  /\ UNCHANGED <<spied, source, fileSystem, currentPath, numbers, callCount,
                 spyCallCount, recordedResults, ops, microtasks, held, observed>>

\* recordedResults.map(result => [...result]) in the accessor call numbered
\* n: the heap with the copies, and their addresses.
\* Faulty variant: [...this.recordedResults], the inner arrays not copied.
getRecordedResults_shallow(n, h, recorded) == [heap |-> h, value |-> recorded]

getRecordedResults(n, h, recorded) ==
  [heap |-> [a \in {<<"access", n, i>> : i \in 1..Len(recorded)} |->
                h[recorded[a[3]]]] @@ h,
   value |-> [i \in 1..Len(recorded) |-> <<"access", n, i>>]]

\* The last recorded result copied, or undefined (the empty tuple here).
getLastResult(n, h, recorded) ==
  IF Len(recorded) > 0
  THEN [heap |-> Alloc(h, <<"access", n, 1>>, h[recorded[Len(recorded)]]),
        value |-> << <<"access", n, 1>> >>]
  ELSE [heap |-> h, value |-> <<>>]

\* The test code calls an accessor of the spy and keeps what it returns.
Accessor(name, r) ==
  /\ spied
  /\ history.calls < MaxCalls
  /\ heap' = r.heap
  /\ held' = held \cup {r.value[i] : i \in 1..Len(r.value)}
  /\ observed' = [call |-> name,
                  value |-> [i \in 1..Len(r.value) |-> r.heap[r.value[i]]],
                  at |-> Len(recordedResults),
                  afterPush |-> history.pushedCopy]
  /\ history' = [history EXCEPT
                   !.calls = @ + 1,
                   !.accesses = @ + 1,
                   !.fromAccessor = @ \cup {r.value[i] : i \in 1..Len(r.value)}]
  /\ UNCHANGED <<spied, source, fileSystem, currentPath, numbers, callCount,
                 spyCallCount, recordedResults, ops, microtasks>>

CallGetRecordedResults ==
  Accessor("getRecordedResults",
           getRecordedResults(history.accesses + 1, heap, recordedResults))

CallGetLastResult ==
  Accessor("getLastResult",
           getLastResult(history.accesses + 1, heap, recordedResults))

Next ==
  \/ \E k \in FacadeOps : FacadeCall(k)
  \/ DirectRead
  \/ SpyResume
  \/ FacadeResume
  \/ ReadResume
  \/ \E path \in SelectPaths : setCurrentPath(path)
  \/ \E f \in AddFiles : addFile(f[1], f[2])
  \/ \E a \in held, v \in PushValues : Push(a, v)
  \/ CallGetRecordedResults
  \/ CallGetLastResult

Spec == Init /\ [][Next]_vars

\* ------------------------------------------- the statistics specification
\* The facade over a source constructed with any short sequence, or with a
\* sequence of the tests.
RECURSIVE SeqsUpTo(_)
SeqsUpTo(n) ==
  IF n = 0 THEN {<<>>}
  ELSE LET shorter == SeqsUpTo(n - 1)
       IN  shorter \cup {Append(s, v) : s \in {t \in shorter : Len(t) = n - 1},
                                        v \in Values}

TestInputs == {<<1, 2, 3, 4, 5>>, <<1, 3, 2, 5, 4>>, <<7, 34, 2>>, <<10, 20, 30>>,
               <<5, 15, 25, 35>>, <<1, 1, 2, 2, 3>>, <<1, 1, 2, 2, 2, 3>>,
               <<2, 2, 3, 3, 3, 1>>, <<10, 15, 20, 25, 30>>, <<5, 1, 9, 3, 7>>}

StatInputs == SeqsUpTo(MaxLen) \cup TestInputs

InitStats ==
  \E kind \in {"SimpleFake", "ConfigurableStub"}, input \in StatInputs :
    Constructed(FALSE, kind, input)

\* Each facade operation is called once, in any order and overlap.
CallOnce(k) ==
  /\ \A i \in 1..Len(ops) : ops[i].op # k
  /\ FacadeCall(k)

NextStats ==
  \/ \E k \in FacadeOps : CallOnce(k)
  \/ FacadeResume

SpecStats == InitStats /\ [][NextStats]_vars

\* ------------------------------------------------------------- properties
Done(i) == ops[i].pc = "done"

Succeeded(i) == Done(i) /\ ops[i].result.state = "fulfilled"

Failed(i) == Done(i) /\ ops[i].result.state = "rejected"

FacadeOp(i) == ops[i].op \in FacadeOps

Range(xs) == {xs[j] : j \in 1..Len(xs)}

\* Occurrences of v in xs.
Occ(xs, v) == Cardinality({j \in 1..Len(xs) : xs[j] = v})

Ascending(xs) == \A j \in 1..(Len(xs) - 1) : xs[j] <= xs[j + 1]

StrictlyAscending(xs) == \A j \in 1..(Len(xs) - 1) : xs[j] < xs[j + 1]

\* The rearrangements of xs.
Perms(xs) == {[j \in 1..Len(xs) |-> xs[f[j]]] : f \in Permutations(1..Len(xs))}

\* xs in ascending order.
Sorted(xs) == CHOOSE s \in Perms(xs) : Ascending(s)

RECURSIVE Sum(_)
Sum(xs) == IF xs = <<>> THEN 0 ELSE Head(xs) + Sum(Tail(xs))

\* The error FakeFileSystemNumberProvider.readNumbers makes in call i.
FileNotFound(i) == [message |-> "File not found: " \o ops[i].path, id |-> i]

\* The operations whose fetch the FileAccessSpy has received, in order.
RECURSIVE ReceivedBySpy(_)
ReceivedBySpy(n) ==
  IF n = 0 THEN <<>>
  ELSE IF ops[n].pc # "spy" /\ ops[n].promise.state = "fulfilled"
  THEN Append(ReceivedBySpy(n - 1), n)
  ELSE ReceivedBySpy(n - 1)

\* C1: every operation calls the source's readNumbers exactly once: a
\* counting source has counted as many calls as operations were started, so
\* n once n operations have completed; a FileAccessSpy has counted the
\* operations whose fetch it has received.
C1_OneFetchPerOperation ==
  /\ source \in CountingKinds => callCount = Len(ops)
  /\ (source \in CountingKinds /\ microtasks = <<>>) =>
        callCount = Cardinality({i \in 1..Len(ops) : Done(i)})
  /\ spied => spyCallCount = Len(ReceivedBySpy(Len(ops)))

\* Mean, median and mode called in sequence on a counting source, each
\* completed: the count is 3.
C1_Witness ==
  /\ source \in CountingKinds
  /\ Len(ops) = 3
  /\ ops[1].op = "mean" /\ ops[2].op = "median" /\ ops[3].op = "mode"
  /\ \A i \in 1..3 : Succeeded(i)
  /\ callCount = 3

\* C2: a facade operation whose fetch fails fails with the very error of the
\* fetch; on a FakeFileSystemNumberProvider whose current path is no file at
\* the call, that is 'File not found: <that path>'.
C2_FailurePropagatesUnchanged ==
  \A i \in 1..Len(ops) :
    /\ ~ops[i].registered => ops[i].promise = Rejected(FileNotFound(i))
    /\ (Done(i) /\ FacadeOp(i) /\ ops[i].promise.state = "rejected") =>
          ops[i].result = Rejected(ops[i].promise.reason)
    /\ (Done(i) /\ FacadeOp(i) /\ ~ops[i].registered) =>
          ops[i].result = Rejected(FileNotFound(i))

\* A facade operation on the unregistered path of the test has failed.
C2_Witness ==
  \E i \in 1..Len(ops) :
    /\ source = "FakeFileSystem"
    /\ FacadeOp(i)
    /\ Failed(i)
    /\ ops[i].path = MissingFile
    /\ ops[i].result.reason.message = "File not found: /non/existent/file.txt"

\* C3: no source hands out an array that aliases its own state: whatever the
\* test code pushes onto the arrays it received, the arrays the source holds
\* keep the contents they were given and every fetch returns those contents.
C3_NoAliasing ==
  /\ source \in ArrayKinds => heap[numbers] = history.original
  /\ source = "FakeFileSystem" =>
        \A p \in Paths : fileSystem[p] # Null => heap[fileSystem[p]] = history.shadow[p]
  /\ \A i \in 1..Len(ops) :
        ops[i].promise.state = "fulfilled" => ops[i].fetched = ops[i].expected

\* What the facade operation k is to return for the numbers xs.
Statistic(k, xs) ==
  CASE k = "mean" -> mean(xs)
    [] k = "median" -> median(xs)
    [] k = "mode" -> mode(xs)

\* C4: the facade caches nothing: a completed operation returns the statistic
\* of the numbers its own fetch delivered, and for a source that copies those
\* are the contents the source had for the path selected at the call, so the
\* same operation on an unchanged source returns the same result.
C4_NoCaching ==
  \A i \in 1..Len(ops) :
    (Succeeded(i) /\ FacadeOp(i)) =>
      /\ ops[i].result = Fulfilled(Statistic(ops[i].op, ops[i].received))
      /\ source # "ConfigurableStub" => ops[i].received = ops[i].expected
      /\ \A j \in 1..Len(ops) :
           (Succeeded(j) /\ ops[j].op = ops[i].op /\ source # "ConfigurableStub"
              /\ ops[j].expected = ops[i].expected) =>
             ops[j].result = ops[i].result

\* The same operation completed twice on a fake file system, another file
\* selected in between, with different results.
C4_Witness ==
  /\ source = "FakeFileSystem"
  /\ Len(ops) >= 2
  /\ Succeeded(1) /\ Succeeded(2)
  /\ ops[1].op = ops[2].op
  /\ FacadeOp(1)
  /\ ops[1].path # ops[2].path
  /\ ops[1].result # ops[2].result

\* C5: computeModeOfFile returns the distinct values with the largest
\* occurrence count, ascending and without repetition, whatever the order of
\* the input.
C5_ModeIsMostFrequentAscending ==
  \A i \in 1..Len(ops) :
    (Succeeded(i) /\ ops[i].op = "mode") =>
      LET xs == ops[i].received
          r  == ops[i].result.value
      IN  /\ StrictlyAscending(r)
          /\ Range(r) = {v \in Range(xs) :
                           \A w \in Range(xs) : Occ(xs, w) <= Occ(xs, v)}
          /\ (\A v \in Range(xs) : Occ(xs, v) = 1) => r = Sorted(xs)
          /\ \A q \in Perms(xs) : computeModeOfFile(q) = r

\* A mode of two tied values out of an unsorted input with a less frequent
\* third.
C5_Witness ==
  \E i \in 1..Len(ops) :
    /\ Succeeded(i)
    /\ ops[i].op = "mode"
    /\ Len(ops[i].result.value) = 2
    /\ Cardinality(Range(ops[i].received)) = 3 \/ ops[i].received = <<2, 1, 2, 1>>
    /\ ~Ascending(ops[i].received)

\* C6: on an empty sequence the operations complete without an error: mean
\* and median give not-a-number, mode gives the empty sequence.
C6_EmptyInputIsDefined ==
  \A i \in 1..Len(ops) :
    (Done(i) /\ FacadeOp(i) /\ ops[i].promise.state = "fulfilled"
       /\ ops[i].received = <<>>) =>
      /\ ops[i].result.state = "fulfilled"
      /\ ops[i].op \in {"mean", "median"} => isNaN(ops[i].result.value)
      /\ ops[i].op = "mode" => ops[i].result.value = <<>>

\* The three operations completed on the empty file.
C6_Witness ==
  /\ source = "FakeFileSystem"
  /\ Len(ops) = 3
  /\ {ops[i].op : i \in 1..3} = FacadeOps
  /\ \A i \in 1..3 : Done(i) /\ ops[i].path = EmptyFile /\ ops[i].received = <<>>
                      /\ ops[i].promise.state = "fulfilled"

\* C7: the median of a non-empty input is the middle element of the sorted
\* input, or the mean of its two central elements when the count is even,
\* and no rearrangement of the input changes it.
C7_MedianOrderIndependent ==
  \A i \in 1..Len(ops) :
    (Succeeded(i) /\ ops[i].op = "median" /\ ops[i].received # <<>>) =>
      LET xs == ops[i].received
          n  == Len(xs)
          s  == Sorted(xs)
          r  == ops[i].result.value
      IN  /\ r = IF n % 2 = 1 THEN Num(s[(n + 1) \div 2])
                 ELSE Quot(s[n \div 2] + s[n \div 2 + 1], 2)
          /\ \A q \in Perms(xs) : computeMedianOfFile(q) = r

\* The median of an unsorted input of even count that is no element of it.
C7_Witness ==
  \E i \in 1..Len(ops) :
    /\ Succeeded(i)
    /\ ops[i].op = "median"
    /\ Len(ops[i].received) = 4
    /\ ~Ascending(ops[i].received)
    /\ ops[i].result.value.den = 2

\* C8: computeMeanOfFile returns sum / count of the sequence its own fetch
\* returned: 3 for [1,2,3,4,5], 20 for [10,20,30] and for [5,15,25,35].
C8_MeanIsSumOverCount ==
  \A i \in 1..Len(ops) :
    (Succeeded(i) /\ ops[i].op = "mean" /\ ops[i].received # <<>>) =>
      LET xs == ops[i].received
          r  == ops[i].result.value
      IN  /\ xs = ops[i].fetched
          /\ xs = ops[i].expected
          /\ r.den > 0
          /\ r.num * Len(xs) = Sum(xs) * r.den
          /\ Gcd(r.num, r.den) = 1
          /\ xs = <<1, 2, 3, 4, 5>> => r = Num(3)
          /\ xs \in {<<10, 20, 30>>, <<5, 15, 25, 35>>} => r = Num(20)

\* The mean of [5,15,25,35] of the test.
C8_Witness ==
  \E i \in 1..Len(ops) :
    /\ Succeeded(i)
    /\ ops[i].op = "mean"
    /\ ops[i].received = <<5, 15, 25, 35>>
    /\ ops[i].result.value = Num(20)

\* C9: what getRecordedResults and getLastResult hand out are copies: the
\* recorded arrays keep the contents they were recorded with whatever the
\* test code pushes onto the arrays it got, every accessor call returns the
\* contents as recorded, and the call count stays the number of recordings.
C9_AccessorsReturnCopies ==
  /\ Len(recordedResults) = Len(history.recordLog)
  /\ \A j \in 1..Len(recordedResults) :
       heap[recordedResults[j]] = history.recordLog[j].contents
  /\ observed.call = "getRecordedResults" =>
       observed.value = [j \in 1..observed.at |-> history.recordLog[j].contents]
  /\ observed.call = "getLastResult" =>
       observed.value = IF observed.at = 0 THEN <<>>
                        ELSE <<history.recordLog[observed.at].contents>>
  /\ spyCallCount = Len(history.recordLog)

\* An accessor called again after a push onto an array an earlier accessor
\* call returned.
C9_Witness ==
  /\ observed.afterPush
  /\ observed.call \in {"getRecordedResults", "getLastResult"}
  /\ Len(observed.value) >= 1
  /\ \E a \in history.fromAccessor : 999 \in Range(heap[a])

\* C10: a FileAccessSpy has counted as many calls as it has recorded results;
\* the i-th recorded result is what the i-th successful fetch of the wrapped
\* source delivered (for a source that copies, the contents it had at the
\* fetch); a failed fetch fails the call with the same error and is neither
\* counted nor recorded.
C10_SpyRecordsSuccessfulFetches ==
  spied =>
    LET got == ReceivedBySpy(Len(ops))
    IN  /\ spyCallCount = Len(recordedResults)
        /\ Len(recordedResults) = Len(got)
        /\ \A j \in 1..Len(got) :
             /\ history.recordLog[j].id = got[j]
             /\ heap[recordedResults[j]] = history.recordLog[j].contents
             /\ source # "ConfigurableStub" =>
                  heap[recordedResults[j]] = ops[got[j]].fetched
        /\ \A i \in 1..Len(ops) :
             ~ops[i].registered => ops[i].promise = Rejected(FileNotFound(i))

\* A spy around a fake file system after one failed and one successful fetch.
C10_Witness ==
  /\ spied
  /\ source = "FakeFileSystem"
  /\ \E i, j \in 1..Len(ops) :
       /\ Failed(i) /\ Succeeded(j)
       /\ spyCallCount = 1
       /\ Len(recordedResults) = 1
       /\ heap[recordedResults[1]] = <<1, 2, 3, 4, 5>>

\* C11: a facade operation on a fake file system works on the file selected
\* when it was called: whatever setCurrentPath, addFile or other operation
\* comes before it settles, it returns the statistic of the contents that
\* path had at its call, or fails with 'File not found' for that path, and no
\* two operations are handed the same array.
C11_PathTakenAtInvocation ==
  source = "FakeFileSystem" =>
    /\ \A i \in 1..Len(ops) :
         (Done(i) /\ FacadeOp(i)) =>
           ops[i].result = IF ops[i].registered
                           THEN Fulfilled(Statistic(ops[i].op, ops[i].expected))
                           ELSE Rejected(FileNotFound(i))
    /\ \A i \in 1..Len(ops) :
         ops[i].promise.state = "fulfilled" =>
           /\ \A p \in Paths : fileSystem[p] # ops[i].promise.value
           /\ \A j \in 1..Len(ops) :
                (j # i /\ ops[j].promise.state = "fulfilled") =>
                  ops[j].promise.value # ops[i].promise.value

\* Two facade operations completed on different files with different
\* results, the selection changed or the second started while the first was
\* pending.
C11_Witness ==
  /\ source = "FakeFileSystem"
  /\ Len(ops) >= 2
  /\ FacadeOp(1) /\ FacadeOp(2)
  /\ Succeeded(1) /\ Succeeded(2)
  /\ 1 \in history.disturbed
  /\ ops[1].path # ops[2].path
  /\ ops[1].result = Fulfilled(Statistic(ops[1].op, <<1, 2, 3, 4, 5>>))
  /\ ops[2].expected # <<1, 2, 3, 4, 5>>

=============================================================================
